---------------------------- MODULE Spec2Model ----------------------------
(***************************************************************************)
(* The timer/statistics core of the Transformers Timer application:        *)
(* src/src/context/TimerContext.tsx (timerReducer, updateStatsEntry and    *)
(* the TimerProvider component with its three effects).                    *)
(*                                                                         *)
(* Durations are scaled from minutes to a few seconds and a calendar day   *)
(* to DayLen clock units, so that countdowns and day changes fit in a      *)
(* finite state space.                                                     *)
(*                                                                         *)
(* Scheduling (React 18, createRoot, src/src/main.tsx):                    *)
(*  - dispatch() appends an update to the reducer's queue; a render        *)
(*    applies the queued updates in dispatch order and commits;            *)
(*  - a command issued from a click or a key press is rendered and         *)
(*    committed, and its effects are run, before any timer callback can    *)
(*    run (discrete events are flushed synchronously);                     *)
(*  - an update dispatched from the interval callback or from an effect    *)
(*    is rendered in a later task, and the effects of that commit run in   *)
(*    a task after it: until then the interval of the previous commit is   *)
(*    still live and may fire;                                             *)
(*  - pending effects are always run before the next render.               *)
(***************************************************************************)
EXTENDS Integers, Sequences, FiniteSets, TLC

(* ------------------------------ bounds --------------------------------- *)

\* longest preset duration, in seconds
MaxDur == 2

\* timeRemaining is followed down to -MaxBelow
MaxBelow == 1

\* recorded sessions are followed up to this many
MaxSessions == 2

\* the wall clock runs from 0 to MaxNow
MaxNow == 1

\* TICKs that can wait in the reducer's queue before a render
MaxQueue == 1

(* ------------------------- program constants --------------------------- *)

\* 24 * 60 * 60 * 1000 ms, in clock units
DayLen == 2

\* the value of an unset optional field (lastSessionDate, achievement.date)
Undefined == -1

\* the number parseInt returns for a text that holds no number
NaN == -1000

\* the null of a parsed JSON text
Null == -1001

PresetNames == {"focus", "shortFocus", "break", "shortBreak"}

Durations == 1..MaxDur

AchievementIds ==
  {"first-session", "three-day-streak", "seven-day-streak", "faction-loyalty", "transformer"}

\* the quotes in the order of initialState.quotes
QuoteIds ==
  <<"optimus_1", "megatron_1", "bumblebee_1", "starscream_1", "optimalprimal_1", "megatron2_1">>

QuoteIndex == 1..Len(QuoteIds)

VARIABLES
  state,      \* the reducer state of TimerProvider (TimerState)
  queue,      \* updates dispatched and not yet rendered
  interval,   \* number of live setInterval tickers
  deps,       \* the dependencies the effects last ran with
  passive,    \* TRUE while the effects of the last commit have not run
  storage,    \* localStorage 'timerState': <<>> or <<snapshot>>
  now         \* the wall clock

vars == <<state, queue, interval, deps, passive, storage, now>>

(* ------------------------------ state ---------------------------------- *)

emptyStats ==
  [ sessionsCompleted |-> 0,
    currentStreak     |-> 0,
    longestStreak     |-> 0,
    lastSessionDate   |-> Undefined,
    totalFocusTime    |-> 0,
    weeklyStats       |-> <<>>,
    monthlyStats      |-> <<>>,
    yearlyStats       |-> <<>> ]

initialState ==
  [ isRunning     |-> FALSE,
    isComplete    |-> FALSE,
    timeRemaining |-> MaxDur,
    presets       |-> [focus |-> MaxDur, shortFocus |-> 1, break |-> 1, shortBreak |-> 1],
    activePreset  |-> [id |-> "focus", duration |-> MaxDur],
    preferences   |-> [randomQuotes |-> TRUE],
    stats         |-> emptyStats,
    achievements  |-> [a \in AchievementIds |-> [unlocked |-> FALSE, date |-> Undefined]],
    quotes        |-> [i \in QuoteIndex |-> i <= 4] ]

\* an update of the reducer: TimerAction
Action(type, name, value) == [type |-> type, name |-> name, value |-> value]

Plain(type) == Action(type, "", 0)

(* ------------------------------ dates ---------------------------------- *)

\* new Date().toISOString().split('T')[0]: the UTC calendar day of t
isoDate(t) == t \div DayLen

\* new Date(lastSessionDate).getTime(): UTC midnight of that day
dateTime(d) == d * DayLen

(* ----------------------------- reducer --------------------------------- *)

\* entries.findIndex(entry => entry.date === date), 0 when there is none
findIndex(entries, date) ==
  IF \E i \in 1..Len(entries) : entries[i].date = date
    THEN CHOOSE i \in 1..Len(entries) :
           /\ entries[i].date = date
           /\ \A j \in 1..(i - 1) : entries[j].date # date
    ELSE 0

\* an updateStatsEntry that never looks for the entry of the date
updateStatsEntryAlwaysAppends(entries, date, duration) ==
  Append(entries, [date |-> date, sessions |-> 1, focusTime |-> duration])

\* an updateStatsEntry that overwrites the focus time of the entry it finds
updateStatsEntryOverwrites(entries, date, duration) ==
  LET existingEntryIndex == findIndex(entries, date) IN
  IF existingEntryIndex >= 1
    THEN [index \in 1..Len(entries) |->
            IF index = existingEntryIndex
              THEN [entries[index] EXCEPT !.sessions  = @ + 1,
                                          !.focusTime = duration]
              ELSE entries[index]]
    ELSE Append(entries, [date |-> date, sessions |-> 1, focusTime |-> duration])

updateStatsEntry(entries, date, duration) ==
  LET existingEntryIndex == findIndex(entries, date) IN
  IF existingEntryIndex >= 1
    THEN [index \in 1..Len(entries) |->
            IF index = existingEntryIndex
              THEN [entries[index] EXCEPT !.sessions  = @ + 1,
                                          !.focusTime = @ + duration]
              ELSE entries[index]]
    ELSE Append(entries, [date |-> date, sessions |-> 1, focusTime |-> duration])

reduceStartTimer(s) == [s EXCEPT !.isRunning = TRUE]

reducePauseTimer(s) == [s EXCEPT !.isRunning = FALSE]

reduceResetTimer(s) ==
  [s EXCEPT !.isRunning     = FALSE,
            !.isComplete    = FALSE,
            !.timeRemaining = s.activePreset.duration]

\* a TICK that counts the elapsed second as focus time
reduceTickCountsFocusTime(s) ==
  LET newTimeRemaining == s.timeRemaining - 1 IN
  [s EXCEPT !.timeRemaining        = newTimeRemaining,
            !.isComplete           = (newTimeRemaining = 0),
            !.isRunning            = (newTimeRemaining > 0),
            !.stats.totalFocusTime = @ + 1]

reduceTick(s) ==
  LET newTimeRemaining == s.timeRemaining - 1 IN
  [s EXCEPT !.timeRemaining = newTimeRemaining,
            !.isComplete    = (newTimeRemaining = 0),
            !.isRunning     = (newTimeRemaining > 0)]

\* SWITCH_PRESET that keeps the progress of the discarded countdown
reduceSwitchPresetKeepsTime(s, id, duration) ==
  [s EXCEPT !.activePreset = [id |-> id, duration |-> duration],
            !.isRunning    = FALSE,
            !.isComplete   = FALSE]

reduceSwitchPreset(s, id, duration) ==
  [s EXCEPT !.activePreset  = [id |-> id, duration |-> duration],
            !.timeRemaining = duration,
            !.isRunning     = FALSE,
            !.isComplete    = FALSE]

\* UPDATE_PRESET that resets the countdown whichever preset is edited
reduceUpdatePresetAlwaysResets(s, name, value) ==
  [s EXCEPT !.presets[name]         = value,
            !.activePreset.duration = value,
            !.timeRemaining         = value]

reduceUpdatePreset(s, name, value) ==
  LET withPreset == [s EXCEPT !.presets[name] = value] IN
  IF s.activePreset.id = name
    THEN [withPreset EXCEPT !.activePreset.duration = value,
                            !.timeRemaining         = value]
    ELSE withPreset

reduceUpdatePreference(s, name, value) == [s EXCEPT !.preferences[name] = value]

\* a RESET_STATS that keeps the record streak and the unlocked achievements
reduceResetStatsKeepsRecord(s) ==
  [s EXCEPT !.stats  = [emptyStats EXCEPT !.longestStreak = s.stats.longestStreak],
            !.quotes = [i \in QuoteIndex |-> i <= 4]]

reduceResetStats(s) ==
  [s EXCEPT !.stats        = emptyStats,
            !.achievements = [a \in AchievementIds |-> [unlocked |-> FALSE, date |-> Undefined]],
            !.quotes       = [i \in QuoteIndex |-> i <= 4]]

\* a streak that grows with every completion of the same day
newStreakAtSameDayCounts(stats, t) ==
  LET today == isoDate(t)
      isNewDay == stats.lastSessionDate # today
      isContinuingStreak ==
        /\ stats.lastSessionDate # Undefined
        /\ dateTime(stats.lastSessionDate) >= t - DayLen
  IN  IF isNewDay
        THEN IF isContinuingStreak THEN stats.currentStreak + 1 ELSE 1
        ELSE stats.currentStreak + 1

\* a streak that is never broken
newStreakAtNeverBroken(stats, t) ==
  LET today == isoDate(t)
      isNewDay == stats.lastSessionDate # today
  IN  IF isNewDay THEN stats.currentStreak + 1 ELSE stats.currentStreak

\* a streak counted in calendar days: it continues when the last session was
\* the day before
newStreakAtByCalendarDay(stats, t) ==
  LET today == isoDate(t)
      isNewDay == stats.lastSessionDate # today
      isContinuingStreak ==
        /\ stats.lastSessionDate # Undefined
        /\ today - stats.lastSessionDate = 1
  IN  IF isNewDay
        THEN IF isContinuingStreak THEN stats.currentStreak + 1 ELSE 1
        ELSE stats.currentStreak

\* new streak of COMPLETE_TIMER_SESSION reduced at clock t
newStreakAt(stats, t) ==
  LET today == isoDate(t)
      isNewDay == stats.lastSessionDate # today
      isContinuingStreak ==
        /\ stats.lastSessionDate # Undefined
        /\ dateTime(stats.lastSessionDate) >= t - DayLen
  IN  IF isNewDay
        THEN IF isContinuingStreak THEN stats.currentStreak + 1 ELSE 1
        ELSE stats.currentStreak

\* a maximum that keeps its first operand
KeepFirst(a, b) == a

Max(a, b) == IF a >= b THEN a ELSE b

unlock(achievements, id, today) ==
  [a \in AchievementIds |->
     IF a = id THEN [unlocked |-> TRUE, date |-> today] ELSE achievements[a]]

reduceCompleteTimerSession(s, t) ==
  LET today == isoDate(t)
      newStreak == newStreakAt(s.stats, t)
      newLongestStreak == Max(s.stats.longestStreak, newStreak)
      a1 == IF s.stats.sessionsCompleted = 0
              THEN unlock(s.achievements, "first-session", today)
              ELSE s.achievements
      a2 == IF newStreak >= 3 THEN unlock(a1, "three-day-streak", today) ELSE a1
      a3 == IF newStreak >= 7 THEN unlock(a2, "seven-day-streak", today) ELSE a2
  IN  [s EXCEPT
         !.stats = [ sessionsCompleted |-> s.stats.sessionsCompleted + 1,
                     currentStreak     |-> newStreak,
                     longestStreak     |-> newLongestStreak,
                     lastSessionDate   |-> today,
                     totalFocusTime    |-> s.stats.totalFocusTime + s.activePreset.duration,
                     weeklyStats  |-> updateStatsEntry(s.stats.weeklyStats, today, s.activePreset.duration),
                     monthlyStats |-> updateStatsEntry(s.stats.monthlyStats, today, s.activePreset.duration),
                     yearlyStats  |-> updateStatsEntry(s.stats.yearlyStats, today, s.activePreset.duration) ],
         !.achievements = a3]

\* quoteId is the index of the quote in state.quotes
reduceUnlockQuote(s, quoteId) == [s EXCEPT !.quotes[quoteId] = TRUE]

reduceUnlockAchievement(s, id, t) ==
  [s EXCEPT !.achievements = unlock(s.achievements, id, isoDate(t))]

\* timerReducer, evaluated when the clock reads t
timerReducer(s, action, t) ==
  CASE action.type = "START_TIMER"            -> reduceStartTimer(s)
    [] action.type = "PAUSE_TIMER"            -> reducePauseTimer(s)
    [] action.type = "RESET_TIMER"            -> reduceResetTimer(s)
    [] action.type = "TICK"                   -> reduceTick(s)
    [] action.type = "SWITCH_PRESET"          -> reduceSwitchPreset(s, action.name, action.value)
    [] action.type = "UPDATE_PRESET"          -> reduceUpdatePreset(s, action.name, action.value)
    [] action.type = "UPDATE_PREFERENCE"      -> reduceUpdatePreference(s, action.name, action.value)
    [] action.type = "RESET_STATS"            -> reduceResetStats(s)
    [] action.type = "COMPLETE_TIMER_SESSION" -> reduceCompleteTimerSession(s, t)
    [] action.type = "UNLOCK_QUOTE"           -> reduceUnlockQuote(s, action.value)
    [] action.type = "UNLOCK_ACHIEVEMENT"     -> reduceUnlockAchievement(s, action.name, t)
    [] OTHER                                  -> s

\* a render: the queued updates applied in dispatch order
RECURSIVE reduceAll(_, _, _)
reduceAll(s, updates, t) ==
  IF updates = <<>> THEN s
  ELSE reduceAll(timerReducer(s, Head(updates), t), Tail(updates), t)

(* --------------------------- persistence ------------------------------- *)

\* a record without one of its keys
without(rec, key) == [k \in (DOMAIN rec) \ {key} |-> rec[k]]

\* reading a property: an absent key reads as undefined
field(rec, key) == IF key \in DOMAIN rec THEN rec[key] ELSE Undefined

\* JSON.stringify of a number: NaN is written as null
jsonNumber(v) == IF v = NaN THEN Null ELSE v

\* JSON.stringify(state): keys whose value is undefined are left out
stringify(s) ==
  [s EXCEPT
     !.timeRemaining = jsonNumber(@),
     !.presets = [k \in DOMAIN s.presets |-> jsonNumber(s.presets[k])],
     !.activePreset.duration = jsonNumber(@),
     !.stats = IF s.stats.lastSessionDate = Undefined
                 THEN without(s.stats, "lastSessionDate")
                 ELSE s.stats,
     !.achievements = [a \in AchievementIds |->
                         IF s.achievements[a].date = Undefined
                           THEN without(s.achievements[a], "date")
                           ELSE s.achievements[a]]]

\* the state as the program reads it back from a parsed snapshot
hydrate(s) ==
  [s EXCEPT
     !.presets = [k \in PresetNames |-> field(s.presets, k)],
     !.activePreset = [id |-> s.activePreset.id, duration |-> field(s.activePreset, "duration")],
     !.stats = [k \in DOMAIN emptyStats |-> field(s.stats, k)],
     !.achievements = [a \in DOMAIN s.achievements |->
                         [unlocked |-> s.achievements[a].unlocked,
                          date     |-> field(s.achievements[a], "date")]]]

\* The entry under 'timerState' is the text of an object, modelled by the
\* record of its keys, or another text, modelled by [text |-> ...].
isText(entry) == "text" \in DOMAIN entry

\* the texts followed that are not the text of an object
NonObjectTexts == {"", "{not json", "null", "5"}

\* the saved object spread over initialState, preferences merged key by key
mergeSnapshot(parsedState) ==
  LET preferences ==
        IF "preferences" \notin DOMAIN parsedState
          THEN initialState.preferences
          ELSE [k \in DOMAIN initialState.preferences |->
                  IF k \in DOMAIN parsedState.preferences
                    THEN parsedState.preferences[k]
                    ELSE initialState.preferences[k]]
  IN  hydrate([k \in DOMAIN initialState |->
                 IF k = "preferences" THEN preferences
                 ELSE IF k \in DOMAIN parsedState THEN parsedState[k]
                 ELSE initialState[k]])

\* an initializer run as a sloppy-mode script: the assignment of .preferences
\* to a parsed number is dropped without an exception, and the spread ends
\* with preferences undefined
loadStateSloppy(stored) ==
  IF stored = <<>>
    THEN initialState
    ELSE IF isText(stored[1])
      THEN IF stored[1].text = "5"
             THEN [initialState EXCEPT !.preferences = [randomQuotes |-> FALSE]]
             ELSE initialState
      ELSE mergeSnapshot(stored[1])

\* the initializer of useReducer
loadState(stored) ==
  IF stored = <<>>
    THEN initialState                         \* getItem returns null
    ELSE IF isText(stored[1])
      THEN CASE stored[1].text = ""     -> initialState  \* if (savedState) fails
             [] stored[1].text = "null" -> initialState  \* null.preferences throws, caught
             [] stored[1].text = "5"    -> initialState  \* assignment to a number throws
                                                         \* in module code, caught
             [] OTHER                   -> initialState  \* JSON.parse throws, caught
      ELSE mergeSnapshot(stored[1])

(* ------------------------------ effects -------------------------------- *)

unmounted == [mounted |-> FALSE, isRunning |-> FALSE, isComplete |-> FALSE]

\* a completion check that leaves the break presets in
isCountableAlways(id) == id \in PresetNames

isCountable(id) == id \in {"focus", "shortFocus"}

lockedQuotes(s) == {i \in QuoteIndex : ~s.quotes[i]}

\* the 'Save state' effect, deps [state]
saveEffect(s) == <<stringify(s)>>

\* the 'Timer tick' effect, deps [state.isRunning]: the cleanup of the previous
\* run clears the interval that run created, then a new one is set if running
tickEffect(s, d, iv) ==
  IF d.mounted /\ d.isRunning = s.isRunning
    THEN iv
    ELSE (iv - (IF d.mounted /\ d.isRunning THEN 1 ELSE 0))
         + (IF s.isRunning THEN 1 ELSE 0)

\* a completion effect without its dependency array: it runs after every
\* commit
completionEffectEveryCommit(s, d, r) ==
  IF ~s.isComplete
    THEN <<>>
    ELSE IF isCountable(s.activePreset.id)
      THEN <<Plain("COMPLETE_TIMER_SESSION")>>
      ELSE <<>>

\* the 'Handle timer completion' effect, deps [state.isComplete]: the updates
\* it dispatches; r is the quote Math.random() picks among the locked ones
completionEffect(s, d, r) ==
  IF (d.mounted /\ d.isComplete = s.isComplete) \/ ~s.isComplete
    THEN <<>>
    ELSE IF isCountable(s.activePreset.id)
      THEN <<Plain("COMPLETE_TIMER_SESSION")>>
           \o (IF s.preferences.randomQuotes /\ r \in lockedQuotes(s)
                 THEN <<Action("UNLOCK_QUOTE", "", r)>>
                 ELSE <<>>)
      ELSE <<>>

\* the three effects of one commit, in the order they are declared
runEffects(s, d, iv, r) ==
  [ storage    |-> saveEffect(s),
    interval   |-> tickEffect(s, d, iv),
    dispatched |-> completionEffect(s, d, r),
    deps       |-> [mounted |-> TRUE, isRunning |-> s.isRunning, isComplete |-> s.isComplete] ]

(* ------------------------------ actions -------------------------------- *)

count(updates, type) == Cardinality({i \in DOMAIN updates : updates[i].type = type})

\* the outcomes of the random pick that matter to the effects of state s
Picks(s, d) ==
  IF /\ completionEffect(s, d, 0) # <<>>
     /\ s.preferences.randomQuotes
     /\ lockedQuotes(s) # {}
    THEN lockedQuotes(s)
    ELSE {0}

noEffects ==
  [storage |-> storage, interval |-> interval, dispatched |-> <<>>, deps |-> deps]

\* A command of the context API issued from an event handler: the handler
\* dispatches `updates`; pending effects of the previous commit run first,
\* then the queue is rendered and committed and the effects of the commit run.
Command(updates) ==
  \E r1 \in Picks(state, deps) :
    LET pre == IF passive THEN runEffects(state, deps, interval, r1) ELSE noEffects
        s1  == reduceAll(state, queue \o updates, now)
    IN  \E r2 \in Picks(s1, pre.deps) :
          LET post == runEffects(s1, pre.deps, pre.interval, r2) IN
          /\ state'    = s1
          /\ queue'    = pre.dispatched \o post.dispatched
          /\ interval' = post.interval
          /\ deps'     = post.deps
          /\ storage'  = post.storage
          /\ passive'  = FALSE
          /\ UNCHANGED now

startTimer == Command(<<Plain("START_TIMER")>>)

pauseTimer == Command(<<Plain("PAUSE_TIMER")>>)

resetTimer == Command(<<Plain("RESET_TIMER")>>)

switchPreset(id, duration) == Command(<<Action("SWITCH_PRESET", id, duration)>>)

updatePreset(name, value) == Command(<<Action("UPDATE_PRESET", name, value)>>)

updatePreference(name, value) == Command(<<Action("UPDATE_PREFERENCE", name, value)>>)

resetStats == Command(<<Plain("RESET_STATS")>>)

\* the 'Start Next Session' button of TimerControls, shown while isComplete
startNextSession ==
  /\ state.isComplete
  /\ Command(<<Plain("RESET_TIMER"), Plain("START_TIMER")>>)

\* what is still to be recorded or may yet be recorded
sessionBudget ==
  state.stats.sessionsCompleted + count(queue, "COMPLETE_TIMER_SESSION")
    + (IF passive /\ state.isComplete THEN 1 ELSE 0)

\* the callback of setInterval dispatches TICK
intervalFire ==
  /\ interval > 0
  /\ count(queue, "TICK") < MaxQueue
  /\ state.timeRemaining - count(queue, "TICK") > -MaxBelow
  /\ sessionBudget < MaxSessions
  /\ queue' = Append(queue, Plain("TICK"))
  /\ UNCHANGED <<state, interval, deps, passive, storage, now>>

\* a render of the updates dispatched outside event handlers, and its commit
render ==
  /\ queue # <<>>
  /\ ~passive
  /\ state' = reduceAll(state, queue, now)
  /\ queue' = <<>>
  /\ passive' = TRUE
  /\ UNCHANGED <<interval, deps, storage, now>>

\* the effects of the last commit run
flushPassiveEffects ==
  /\ passive
  /\ \E r \in Picks(state, deps) :
       LET eff == runEffects(state, deps, interval, r) IN
       /\ queue'    = queue \o eff.dispatched
       /\ interval' = eff.interval
       /\ deps'     = eff.deps
       /\ storage'  = eff.storage
  /\ passive' = FALSE
  /\ UNCHANGED <<state, now>>

\* the page is reloaded: TimerProvider is created again from localStorage
reload ==
  /\ sessionBudget < MaxSessions
  /\ state' = loadState(storage)
  /\ queue' = <<>>
  /\ interval' = 0
  /\ deps' = unmounted
  /\ passive' = TRUE
  /\ UNCHANGED <<storage, now>>

\* wall-clock time passes
advanceClock ==
  /\ now < MaxNow
  /\ now' = now + 1
  /\ UNCHANGED <<state, queue, interval, deps, passive, storage>>

Init ==
  /\ state = initialState
  /\ queue = <<>>
  /\ interval = 0
  /\ deps = unmounted
  /\ passive = TRUE
  /\ storage = <<>>
  /\ now = 0

\* the names the settings pages pass to updatePreset
SettingsPresets == {"focus", "break"}

\* the commands of the timer; the preset buttons and keys pass the stored
\* duration of the preset to switchPreset
TimerCommand ==
  \/ startTimer
  \/ pauseTimer
  \/ resetTimer
  \/ \E id \in PresetNames : switchPreset(id, state.presets[id])
  \/ \E name \in SettingsPresets, value \in Durations : updatePreset(name, value)
  \/ resetStats
  \/ startNextSession

Scheduler ==
  \/ intervalFire
  \/ render
  \/ flushPassiveEffects

\* The timer under every command, the scheduler and page reloads, within one
\* reading of the clock.
Next ==
  \/ TimerCommand
  \/ Scheduler
  \/ reload

Spec == Init /\ [][Next]_vars

(* ---------------------- one countdown, with the clock ------------------- *)

\* Idle: mounted, nothing pending, a countable preset of duration d selected,
\* no statistics yet (the state after switchPreset/updatePreset on a fresh
\* installation)
idleState(id, d) ==
  [initialState EXCEPT !.activePreset  = [id |-> id, duration |-> d],
                       !.presets[id]   = d,
                       !.timeRemaining = d]

InitCountdown ==
  \E id \in {"focus", "shortFocus"}, d \in Durations :
    /\ state = idleState(id, d)
    /\ queue = <<>>
    /\ interval = 0
    /\ deps = [mounted |-> TRUE, isRunning |-> FALSE, isComplete |-> FALSE]
    /\ passive = FALSE
    /\ storage = saveEffect(idleState(id, d))
    /\ now = 0

\* startTimer pressed in the Idle state
startFromIdle ==
  /\ ~state.isRunning
  /\ ~state.isComplete
  /\ state.timeRemaining = state.activePreset.duration
  /\ startTimer

NextCountdown ==
  \/ startFromIdle
  \/ intervalFire
  \/ render
  \/ flushPassiveEffects
  \/ advanceClock

SpecCountdown == InitCountdown /\ [][NextCountdown]_vars


(* ------------------- commands with out-of-range input ------------------- *)

\* the durations that are not positive
NonPositive == (-MaxBelow)..0

\* The timer when a component calls updatePreset of the context with any
\* number: the callback dispatches the value it is given.
NextUnchecked ==
  \/ TimerCommand
  \/ Scheduler
  \/ \E name \in SettingsPresets, value \in NonPositive : updatePreset(name, value)

SpecUnchecked == Init /\ [][NextUnchecked]_vars

(* ------------------- the statistics over several days ------------------- *)

\* the calendar days followed are 0..MaxDay
MaxDay == 5

\* completions recorded in one run
MaxRecorded == 6

LastInstant == DayLen * (MaxDay + 1) - 1

\* a countdown of the active preset has run out: the COMPLETE_TIMER_SESSION
\* dispatched by the completion effect is rendered at the clock's reading and
\* the commit is saved
completeSession ==
  /\ queue = <<>>
  /\ ~passive
  /\ state.stats.sessionsCompleted < MaxRecorded
  /\ state' = reduceAll(state, <<Plain("COMPLETE_TIMER_SESSION")>>, now)
  /\ storage' = saveEffect(state')
  /\ UNCHANGED <<queue, interval, deps, passive, now>>

\* time passes between two uses of the application
passTime ==
  /\ \E t \in (now + 1)..LastInstant : now' = t
  /\ UNCHANGED <<state, queue, interval, deps, passive, storage>>

\* the system clock is set back
clockSetBack ==
  /\ \E t \in 0..(now - 1) : now' = t
  /\ UNCHANGED <<state, queue, interval, deps, passive, storage>>

InitStats ==
  /\ state = initialState
  /\ queue = <<>>
  /\ interval = 0
  /\ deps = [mounted |-> TRUE, isRunning |-> FALSE, isComplete |-> FALSE]
  /\ passive = FALSE
  /\ storage = saveEffect(initialState)
  /\ now = 0

\* Recorded completions as the days go by, statistics resets and reloads.
NextStats ==
  \/ completeSession
  \/ passTime
  \/ resetStats
  \/ reload
  \/ flushPassiveEffects

SpecStats == InitStats /\ [][NextStats]_vars

\* The same with a system clock that can also be set back.
NextSkew ==
  \/ (state.stats.sessionsCompleted <= MaxSessions /\ completeSession)
  \/ passTime
  \/ clockSetBack

SpecSkew == InitStats /\ [][NextSkew]_vars

(* ----------------------- the saved entry and reloads -------------------- *)

\* no number of the state is undefined, NaN or null
wellShaped(s) ==
  LET numbers == {s.timeRemaining, s.activePreset.duration,
                  s.stats.sessionsCompleted, s.stats.totalFocusTime,
                  s.stats.currentStreak, s.stats.longestStreak}
                   \cup {s.presets[k] : k \in PresetNames}
  IN  numbers \cap {Undefined, NaN, Null} = {}

\* the keys of stats that hold a number in every snapshot
NumericStats == {"sessionsCompleted", "totalFocusTime", "currentStreak", "longestStreak"}

\* a snapshot of an older shape: one key of stats, presets or activePreset is
\* not there
olderShapes(snapshot) ==
  {[snapshot EXCEPT !.stats = without(@, k)] : k \in NumericStats \cap DOMAIN snapshot.stats}
    \cup {[snapshot EXCEPT !.presets = without(@, k)] : k \in PresetNames \cap DOMAIN snapshot.presets}
    \cup {[snapshot EXCEPT !.activePreset = without(@, "duration")]}

\* the entry is a snapshot with every key of stats, presets and activePreset
currentShape(entry) ==
  /\ ~isText(entry)
  /\ NumericStats \subseteq DOMAIN entry.stats
  /\ DOMAIN entry.presets = PresetNames
  /\ DOMAIN entry.activePreset = {"id", "duration"}

\* something else than this provider leaves the entry: it is removed, or a
\* text that is not an object, or the snapshot in an older shape
storageReplaced ==
  /\ storage' \in
       {<<>>} \cup {<<[text |-> t]>> : t \in NonObjectTexts}
         \cup (IF storage # <<>> /\ currentShape(storage[1])
                 THEN {<<x>> : x \in olderShapes(storage[1])}
                 ELSE {})
  /\ storage' # storage
  /\ UNCHANGED <<state, queue, interval, deps, passive, now>>

\* a settings page with number inputs passes Math.max(1, parseInt(text)) * 60
\* of an emptied input
saveEmptyDuration == \E name \in SettingsPresets : updatePreset(name, NaN)

\* The provider over reloads, with an entry that can be anything. A state
\* loaded with a number missing is not followed further than its reload.
NextStorage ==
  \/ (wellShaped(state) /\ (startTimer \/ pauseTimer \/ Scheduler))
  \/ (wellShaped(state) /\ saveEmptyDuration)
  \/ storageReplaced
  \/ reload

SpecStorage == InitStats /\ [][NextStorage]_vars

(* ------------------------ a failing write of the entry ------------------ *)

\* the provider is gone: React has unmounted the tree
crashed == ~deps.mounted /\ ~passive

\* localStorage.setItem throws in the 'Save state' effect (the quota is
\* exceeded, or storage is denied). The effect has no try/catch and the tree
\* has no error boundary: the effects declared after it do not run and React
\* unmounts the root, whose cleanups clear the interval.
saveEffectThrows ==
  /\ passive
  /\ queue' = <<>>
  /\ interval' = 0
  /\ deps' = unmounted
  /\ passive' = FALSE
  /\ UNCHANGED <<state, storage, now>>

NextQuota ==
  \/ (~crashed /\ TimerCommand)
  \/ Scheduler
  \/ saveEffectThrows
  \/ reload

SpecQuota == Init /\ [][NextQuota]_vars

(* ------------------- a running countdown and the wall clock ------------- *)

\* seconds of wall-clock time followed after the start
MaxElapsed == 3

\* Running: startTimer was pressed at clock 0 on an idle preset of duration d
InitDeadline ==
  \E id \in PresetNames, d \in Durations :
    /\ state = [idleState(id, d) EXCEPT !.isRunning = TRUE]
    /\ queue = <<>>
    /\ interval = 1
    /\ deps = [mounted |-> TRUE, isRunning |-> TRUE, isComplete |-> FALSE]
    /\ passive = FALSE
    /\ storage = saveEffect([idleState(id, d) EXCEPT !.isRunning = TRUE])
    /\ now = 0

secondPasses ==
  /\ now < MaxElapsed
  /\ now' = now + 1
  /\ UNCHANGED <<state, queue, interval, deps, passive, storage>>

\* TICKs dispatched since the start
ticksDispatched == (state.activePreset.duration - state.timeRemaining) + count(queue, "TICK")

\* the interval fires once per second at most, and possibly late
tickDelivered ==
  /\ ticksDispatched < now
  /\ intervalFire

NextDeadline ==
  \/ secondPasses
  \/ tickDelivered
  \/ render
  \/ flushPassiveEffects

SpecDeadline == InitDeadline /\ [][NextDeadline]_vars

(* --------------- statistics under changing preset durations ------------- *)

\* Completions of presets of changing duration over the first days.
NextTotals ==
  \/ (state.stats.sessionsCompleted <= MaxSessions /\ completeSession)
  \/ (now < DayLen /\ passTime)
  \/ \E id \in PresetNames : switchPreset(id, state.presets[id])
  \/ \E name \in SettingsPresets, value \in Durations : updatePreset(name, value)
  \/ resetStats

SpecTotals == InitStats /\ [][NextTotals]_vars

(* ---------------- completions that never fall on midnight --------------- *)

\* the clock reads 00:00:00.000 UTC
atMidnight == now % DayLen = 0

\* Completions under a clock that only moves forward, none of them at the
\* first instant of a day.
NextNoMidnight ==
  \/ (~atMidnight /\ completeSession)
  \/ passTime
  \/ resetStats

SpecNoMidnight == InitStats /\ [][NextNoMidnight]_vars

(* ------------------------------- claims -------------------------------- *)

completesQueued(updates) == count(updates, "COMPLETE_TIMER_SESSION")

\* nothing dispatched is waiting and the effects of the last commit have run
quiescent == queue = <<>> /\ ~passive

\* C1: from Idle with a countable preset of duration d and no statistics,
\* startTimer and d TICKs leave the timer complete, stopped, at zero, with
\* exactly one session recorded (sessionsCompleted = 1, totalFocusTime = d,
\* currentStreak = 1, one series entry, dated the day of the recording, with
\* sessions = 1); a TICK arriving after that records nothing more.
C1_CountdownRecordsOnce ==
  /\ state.stats.sessionsCompleted <= 1
  /\ state.timeRemaining = 0 => (state.isComplete /\ ~state.isRunning)
  /\ (quiescent /\ state.timeRemaining <= 0 /\ state.stats.sessionsCompleted = 1) =>
       /\ state.stats.totalFocusTime = state.activePreset.duration
       /\ state.stats.currentStreak = 1
       /\ state.stats.lastSessionDate \in 0..isoDate(now)
       /\ state.stats.weeklyStats =
            <<[date      |-> state.stats.lastSessionDate,
               sessions  |-> 1,
               focusTime |-> state.activePreset.duration]>>
  /\ (quiescent /\ state.timeRemaining = 0) => state.stats.sessionsCompleted = 1

\* the longest countdown has run out and its session is recorded
C1_Witness ==
  /\ quiescent
  /\ state.timeRemaining = 0
  /\ state.activePreset.duration = MaxDur
  /\ state.stats.sessionsCompleted = 1

\* C2: a session is recorded only as the consequence of a TICK that took
\* timeRemaining to 0: sessionsCompleted grows only by rendering the queued
\* COMPLETE_TIMER_SESSION updates, and one is dispatched only by the effects
\* of a commit in which isComplete turned from false to true, never by the
\* mount of a provider re-created from the saved snapshot.
C2_OnlyZeroCrossingRecords ==
  [][/\ state'.stats.sessionsCompleted
          <= state.stats.sessionsCompleted + completesQueued(queue)
     /\ completesQueued(queue') > completesQueued(queue) =>
          (deps.mounted /\ ~deps.isComplete)]_vars

BreakPresets == {"break", "shortBreak"}

\* C3: when a break preset's countdown reaches zero the timer is complete and
\* stopped, the step leaves stats and achievements as they were, and the
\* effects of that commit dispatch no COMPLETE_TIMER_SESSION.
C3_BreakCompletesSilently ==
  [][/\ (/\ render
         /\ state.activePreset.id \in BreakPresets
         /\ ~state.isComplete
         /\ state'.isComplete) =>
           /\ state'.timeRemaining = 0
           /\ ~state'.isRunning
           /\ completesQueued(queue) = 0 =>
                /\ state'.stats = state.stats
                /\ state'.achievements = state.achievements
     /\ (/\ state'.activePreset.id \in BreakPresets
         /\ ~state.isComplete
         /\ state'.isComplete) =>
           completesQueued(queue') <= completesQueued(queue)
     /\ (/\ state.activePreset.id \in BreakPresets
         /\ state.isComplete
         /\ passive) =>
           completesQueued(queue') <= completesQueued(queue)]_vars

\* a break has run out, its effects have run, and nothing was recorded
C3_Witness ==
  /\ state.activePreset.id \in BreakPresets
  /\ state.isComplete
  /\ state.timeRemaining = 0
  /\ quiescent
  /\ deps.isComplete
  /\ state.stats = emptyStats

\* C4: timeRemaining is never negative, and a TICK rendered while the timer
\* is running does not increase it.
C4_NeverNegative ==
  /\ [](state.timeRemaining >= 0)
  /\ [][(render /\ state.isRunning) => state'.timeRemaining <= state.timeRemaining]_vars

\* C5: isRunning and isComplete are never both true.
C5_NotRunningAndComplete == ~(state.isRunning /\ state.isComplete)

\* C6: isComplete implies timeRemaining = 0.
C6_CompleteMeansZero == state.isComplete => state.timeRemaining = 0

\* C7: startTimer in the Complete state is reset-then-run: it leaves the timer
\* running, not complete, with the full duration of the active preset.
C7_StartFromCompleteRestarts ==
  [][(/\ state.isComplete
      /\ state.timeRemaining = 0
      /\ queue = <<>>
      /\ startTimer) =>
        /\ state'.isRunning
        /\ ~state'.isComplete
        /\ state'.timeRemaining = state.activePreset.duration]_vars

\* C8: while isRunning is false nothing but a command changes timeRemaining or
\* isRunning: a TICK rendered while the timer is stopped changes neither.
C8_FrozenWhileStopped ==
  [][(~state.isRunning /\ (intervalFire \/ render \/ flushPassiveEffects)) =>
        /\ state'.timeRemaining = state.timeRemaining
        /\ ~state'.isRunning]_vars

\* C9: switchPreset(p) from any state (Idle, Running, Paused, Complete) makes p
\* the active preset with its full duration, stopped and not complete, and
\* records no session: when no completion was already waiting to be recorded,
\* stats and achievements are unchanged and no COMPLETE_TIMER_SESSION is
\* dispatched, whatever timeRemaining the discarded countdown had.
C9_SwitchPresetDiscards ==
  [][\A id \in PresetNames :
       switchPreset(id, state.presets[id]) =>
         /\ state'.activePreset = [id |-> id, duration |-> state.presets[id]]
         /\ state'.timeRemaining = state.presets[id]
         /\ ~state'.isRunning
         /\ ~state'.isComplete
         /\ (~passive /\ completesQueued(queue) = 0) =>
              /\ state'.stats = state.stats
              /\ state'.achievements = state.achievements
              /\ completesQueued(queue') = 0]_vars

\* a preset was switched to after a session was recorded, and is idle
C9_Witness ==
  /\ state.activePreset.id = "shortBreak"
  /\ state.stats.sessionsCompleted = 1
  /\ state.timeRemaining = state.activePreset.duration
  /\ ~state.isRunning /\ ~state.isComplete
  /\ quiescent

\* C10: updatePreset(name, v) stores v as presets[name]; on the active preset
\* it also sets activePreset.duration and timeRemaining to v, and on any other
\* preset it leaves activePreset, timeRemaining, isRunning and isComplete as
\* they were (no TICK waiting to be rendered with the command).
C10_UpdatePreset ==
  [][\A name \in SettingsPresets, v \in Durations :
       (updatePreset(name, v) /\ count(queue, "TICK") = 0) =>
         /\ state'.presets = [state.presets EXCEPT ![name] = v]
         /\ IF state.activePreset.id = name
              THEN /\ state'.activePreset = [id |-> name, duration |-> v]
                   /\ state'.timeRemaining = v
              ELSE /\ state'.activePreset = state.activePreset
                   /\ state'.timeRemaining = state.timeRemaining
         /\ state'.isRunning = state.isRunning
         /\ state'.isComplete = state.isComplete]_vars

\* the running focus countdown was set back to a new duration, while the break
\* preset holds another duration than the one it started with
C10_Witness ==
  /\ state.activePreset.id = "focus"
  /\ state.isRunning
  /\ state.presets.focus = 1
  /\ state.timeRemaining = 1
  /\ state.presets["break"] = MaxDur

C12_NextDayExtendsStreak ==
  [][(/\ completeSession
      /\ state.stats.lastSessionDate # Undefined
      /\ isoDate(now) = state.stats.lastSessionDate + 1) =>
        state'.stats.currentStreak = state.stats.currentStreak + 1]_vars

\* C13: a completion recorded on the date of lastSessionDate leaves
\* currentStreak and longestStreak as they were.
C13_SameDayKeepsStreak ==
  [][(completeSession /\ isoDate(now) = state.stats.lastSessionDate) =>
        /\ state'.stats.currentStreak = state.stats.currentStreak
        /\ state'.stats.longestStreak = state.stats.longestStreak]_vars

\* three completions on the last day of a streak of two days
C13_Witness ==
  /\ state.stats.currentStreak = 2
  /\ state.stats.longestStreak = 2
  /\ \E i \in DOMAIN state.stats.weeklyStats :
       /\ state.stats.weeklyStats[i].date = state.stats.lastSessionDate
       /\ state.stats.weeklyStats[i].sessions = 3

\* C14: a completion recorded while lastSessionDate is unset, or more than one
\* day after lastSessionDate, makes currentStreak exactly 1.
C14_GapRestartsStreak ==
  [][(/\ completeSession
      /\ \/ state.stats.lastSessionDate = Undefined
         \/ isoDate(now) > state.stats.lastSessionDate + 1) =>
        state'.stats.currentStreak = 1]_vars

\* a streak of two days was broken by a gap
C14_Witness ==
  /\ Len(state.stats.weeklyStats) = 3
  /\ state.stats.weeklyStats[2].date = state.stats.weeklyStats[1].date + 1
  /\ state.stats.weeklyStats[3].date > state.stats.weeklyStats[2].date + 1
  /\ state.stats.lastSessionDate = state.stats.weeklyStats[3].date
  /\ state.stats.longestStreak = 2
  /\ state.stats.currentStreak = 1

\* C15: a completion recorded on a date earlier than lastSessionDate (the
\* clock was set back) leaves currentStreak as it was.
C15_ClockSkewKeepsStreak ==
  [][(/\ completeSession
      /\ state.stats.lastSessionDate # Undefined
      /\ isoDate(now) < state.stats.lastSessionDate) =>
        state'.stats.currentStreak = state.stats.currentStreak]_vars

oneEntryPerDate(entries) ==
  \A i, j \in DOMAIN entries : entries[i].date = entries[j].date => i = j

\* entries `after` is entries `before` with one completion of `duration` added
\* under `date`
accumulated(before, after, date, duration) ==
  IF \E i \in DOMAIN before : before[i].date = date
    THEN /\ Len(after) = Len(before)
         /\ \A i \in DOMAIN before :
              IF before[i].date = date
                THEN after[i] = [date      |-> date,
                                 sessions  |-> before[i].sessions + 1,
                                 focusTime |-> before[i].focusTime + duration]
                ELSE after[i] = before[i]
    ELSE after = before \o <<[date |-> date, sessions |-> 1, focusTime |-> duration]>>

\* C17: each series holds at most one entry per date key; a completion whose
\* key exists adds 1 to that entry's sessions and the completed duration to
\* its focusTime, and a new entry {sessions: 1, focusTime: duration} is
\* created only when the key is absent.
C17_OneEntryPerKey ==
  /\ [](/\ oneEntryPerDate(state.stats.weeklyStats)
        /\ oneEntryPerDate(state.stats.monthlyStats)
        /\ oneEntryPerDate(state.stats.yearlyStats))
  /\ [][completeSession =>
          /\ accumulated(state.stats.weeklyStats, state'.stats.weeklyStats,
                         isoDate(now), state.activePreset.duration)
          /\ accumulated(state.stats.monthlyStats, state'.stats.monthlyStats,
                         isoDate(now), state.activePreset.duration)
          /\ accumulated(state.stats.yearlyStats, state'.stats.yearlyStats,
                         isoDate(now), state.activePreset.duration)]_vars

\* two days recorded, the first of them with two completions
C17_Witness ==
  /\ Len(state.stats.weeklyStats) = 2
  /\ state.stats.weeklyStats[1].sessions = 2
  /\ state.stats.weeklyStats[1].focusTime = 2 * state.activePreset.duration
  /\ state.stats.weeklyStats[2].sessions = 1

\* C18: the weekly series never holds more than 7 entries, the monthly series
\* never more than 12 and the yearly series never more than 5.
C18_SeriesCapped ==
  /\ Len(state.stats.weeklyStats) <= 7
  /\ Len(state.stats.monthlyStats) <= 12
  /\ Len(state.stats.yearlyStats) <= 5

\* a calendar for the days followed: months of two days, years of two months
monthOf(day) == day \div 2

yearOf(day) == monthOf(day) \div 2

\* the total of sessions of a series
RECURSIVE sessionsIn(_)
sessionsIn(entries) ==
  IF entries = <<>> THEN 0 ELSE Head(entries).sessions + sessionsIn(Tail(entries))

\* C19: monthlyStats holds one entry per month and yearlyStats one entry per
\* year in which a completion was recorded, each accumulating the sessions of
\* its month or year.
C19_BucketedByMonthAndYear ==
  /\ Len(state.stats.monthlyStats) =
       Cardinality({monthOf(state.stats.weeklyStats[i].date) : i \in DOMAIN state.stats.weeklyStats})
  /\ Len(state.stats.yearlyStats) =
       Cardinality({yearOf(state.stats.weeklyStats[i].date) : i \in DOMAIN state.stats.weeklyStats})
  /\ sessionsIn(state.stats.monthlyStats) = state.stats.sessionsCompleted
  /\ sessionsIn(state.stats.yearlyStats) = state.stats.sessionsCompleted

\* C20: resetStats sets sessionsCompleted, totalFocusTime, currentStreak and
\* longestStreak to 0, unsets lastSessionDate, empties the three series and
\* locks every achievement; with nothing waiting to be rendered it leaves
\* isRunning, isComplete, timeRemaining, activePreset, presets and preferences
\* as they were.
C20_ResetStats ==
  [][resetStats =>
       /\ state'.stats.sessionsCompleted = 0
       /\ state'.stats.totalFocusTime = 0
       /\ state'.stats.currentStreak = 0
       /\ state'.stats.longestStreak = 0
       /\ state'.stats.lastSessionDate = Undefined
       /\ state'.stats.weeklyStats = <<>>
       /\ state'.stats.monthlyStats = <<>>
       /\ state'.stats.yearlyStats = <<>>
       /\ \A a \in AchievementIds : ~state'.achievements[a].unlocked
       /\ queue = <<>> =>
            /\ state'.isRunning = state.isRunning
            /\ state'.isComplete = state.isComplete
            /\ state'.timeRemaining = state.timeRemaining
            /\ state'.activePreset = state.activePreset
            /\ state'.presets = state.presets
            /\ state'.preferences = state.preferences]_vars

\* the statistics were reset after a focus countdown completed and was
\* recorded, and the timer is still in the Complete state
C20_Witness ==
  /\ state.isComplete
  /\ state.activePreset.id = "focus"
  /\ deps.mounted /\ deps.isComplete
  /\ quiescent
  /\ state.stats = emptyStats
  /\ \A a \in AchievementIds : ~state.achievements[a].unlocked

\* the updates other than COMPLETE_TIMER_SESSION and RESET_STATS, with every
\* payload they can carry
FrameActions ==
  {Plain("START_TIMER"), Plain("PAUSE_TIMER"), Plain("RESET_TIMER"), Plain("TICK")}
    \cup {Action("SWITCH_PRESET", id, d) : id \in PresetNames, d \in Durations}
    \cup {Action("UPDATE_PRESET", id, d) : id \in PresetNames, d \in Durations}
    \cup {Action("UPDATE_PREFERENCE", "randomQuotes", b) : b \in BOOLEAN}
    \cup {Action("UNLOCK_QUOTE", "", i) : i \in QuoteIndex}
    \cup {Action("UNLOCK_ACHIEVEMENT", a, 0) : a \in AchievementIds}

\* C21: START_TIMER, PAUSE_TIMER, RESET_TIMER, TICK, SWITCH_PRESET,
\* UPDATE_PRESET, UPDATE_PREFERENCE, UNLOCK_QUOTE and UNLOCK_ACHIEVEMENT,
\* reduced in any reachable state, leave every field of stats unchanged.
C21_StatsFrame ==
  \A action \in FrameActions : timerReducer(state, action, now).stats = state.stats

\* a countdown under way after a session was recorded and a quote unlocked
C21_Witness ==
  /\ state.stats.sessionsCompleted = 1
  /\ state.stats.totalFocusTime = MaxDur
  /\ state.isRunning
  /\ state.timeRemaining < state.activePreset.duration
  /\ \E i \in QuoteIndex : i > 4 /\ state.quotes[i]

\* C22: when the 'timerState' entry is missing, is not valid JSON, or parses
\* to a value that is not an object, the provider starts in exactly
\* initialState.
C22_LoadNeverFails ==
  [][(reload /\ (storage = <<>> \/ isText(storage[1]))) => state' = initialState]_vars

\* the provider was created again over an entry holding a number, after a
\* mounted provider had left a snapshot there
C22_Witness ==
  /\ ~deps.mounted
  /\ passive
  /\ storage = <<[text |-> "5"]>>
  /\ state = initialState

\* the value loaded for key k of a saved object, merged onto its defaults
merged(saved, defaults, k) == IF k \in DOMAIN saved THEN saved[k] ELSE defaults[k]

\* C23: a snapshot whose stats, presets or activePreset lacks a field is
\* loaded with that field at its default value and the others as saved.
C23_DeepMerge ==
  [][(reload /\ storage # <<>> /\ ~isText(storage[1])) =>
        /\ \A k \in DOMAIN emptyStats :
             state'.stats[k] = merged(storage[1].stats, initialState.stats, k)
        /\ \A k \in PresetNames :
             state'.presets[k] = merged(storage[1].presets, initialState.presets, k)
        /\ state'.activePreset.duration =
             merged(storage[1].activePreset, initialState.activePreset, "duration")]_vars

\* C24: saving a reachable state and loading the entry gives the state back:
\* isRunning, isComplete, timeRemaining, activePreset, presets and stats.
C24_RoundTrip ==
  LET loaded == loadState(saveEffect(state)) IN
  /\ loaded.isRunning = state.isRunning
  /\ loaded.isComplete = state.isComplete
  /\ loaded.timeRemaining = state.timeRemaining
  /\ loaded.activePreset = state.activePreset
  /\ loaded.presets = state.presets
  /\ loaded.stats = state.stats

\* C25: a write of the entry that throws is swallowed: the provider stays
\* mounted and its effects leave the interval, the dependencies and the
\* dispatched updates as a successful write would.
C25_WriteFailureSwallowed ==
  /\ [](~crashed)
  /\ [][saveEffectThrows =>
          /\ state' = state
          /\ deps' = runEffects(state, deps, interval, 0).deps
          /\ interval' = runEffects(state, deps, interval, 0).interval]_vars

\* C26: at most one interval is live, and one is live only while isRunning is
\* true.
C26_OneTickerWhileRunning ==
  /\ interval <= 1
  /\ interval > 0 => state.isRunning

\* C27: the countdown follows the deadline fixed at the start: after every
\* rendered TICK timeRemaining = max(0, endTimestamp - now), where the start
\* at clock 0 sets endTimestamp to the duration of the preset.
C27_FollowsDeadline ==
  [][(render /\ count(queue, "TICK") > 0) =>
        state'.timeRemaining = Max(0, state.activePreset.duration - now)]_vars

CountablePresets == {"focus", "shortFocus"}

\* C28: a rendered TICK that takes timeRemaining from 1 to 0 under a countable
\* preset is followed by one COMPLETE_TIMER_SESSION: the effects of that
\* commit, which run before any command, dispatch exactly one.
C28_ZeroCrossingRecords ==
  [][(/\ render
      /\ state.timeRemaining = 1
      /\ state'.timeRemaining = 0
      /\ state'.activePreset.id \in CountablePresets) =>
        /\ passive'
        /\ \A r \in Picks(state', deps) :
             completesQueued(completionEffect(state', deps, r)) = 1]_vars

\* the total of focus time of a series
RECURSIVE focusTimeIn(_)
focusTimeIn(entries) ==
  IF entries = <<>> THEN 0 ELSE Head(entries).focusTime + focusTimeIn(Tail(entries))

\* C29: in every reachable state the sessions of each series add up to
\* sessionsCompleted and their focus time to totalFocusTime.
C29_TotalsAgree ==
  /\ sessionsIn(state.stats.weeklyStats) = state.stats.sessionsCompleted
  /\ sessionsIn(state.stats.monthlyStats) = state.stats.sessionsCompleted
  /\ sessionsIn(state.stats.yearlyStats) = state.stats.sessionsCompleted
  /\ focusTimeIn(state.stats.weeklyStats) = state.stats.totalFocusTime
  /\ focusTimeIn(state.stats.monthlyStats) = state.stats.totalFocusTime
  /\ focusTimeIn(state.stats.yearlyStats) = state.stats.totalFocusTime

\* two days recorded, the first with two sessions of different durations
C29_Witness ==
  /\ Len(state.stats.weeklyStats) = 2
  /\ state.stats.weeklyStats[1].sessions = 2
  /\ state.stats.weeklyStats[1].focusTime = 1 + MaxDur
  /\ state.stats.sessionsCompleted = 3

==========================================================================
